---- MODULE Spec2Model ----
(***************************************************************************)
(* SkillForge - personal skill tracker (src/skillforge.py).                *)
(*                                                                         *)
(* The model covers SkillBase / TechnicalSkill / SoftSkill and             *)
(* SkillForgeManager: the in-memory list of skills, the storage file, and  *)
(* every public manager operation.  Numbers are whole units; the mastery   *)
(* score is computed in fixed point with Scale fractional units, following *)
(* the code's arithmetic step by step.  Timestamps are the clock reading   *)
(* (seconds), which "%Y-%m-%d %H:%M:%S" formats injectively.               *)
(***************************************************************************)
EXTENDS Integers, Sequences, FiniteSets, TLC

(* ------------------------------ bounds -------------------------------- *)
\* number of successful state-changing calls explored in one run
MaxOps == 3
\* number of records in a storage file the manager is started on
MaxRecords == 2

(* ------------------------------ inputs -------------------------------- *)
\* names are sequences of characters; "Py" and "pY" differ only in case
Names == { <<"P", "y">>, <<"p", "Y">>, <<"g", "o">> }
Categories == { "Programming" }
\* the arguments of the runs that explore the numbers: one skill at a time
ValueNames == { <<"P", "y">>, <<"p", "Y">> }
DifficultyInputs == { 0, 8, 10, 11 }
ApplicationInputs == { -1, 5, 25 }
ProgressInputs == { -1, 60, 80, 100, 101 }
HoursInputs == { -1, 25, 40, 1000 }
\* the arguments of the runs that explore the collection: several skills
FewDifficultyInputs == { 0, 8 }
FewApplicationInputs == { -1, 5 }
FewProgressInputs == { -1, 60, 101 }
FewHoursInputs == { -1, 25 }

(* ------------------------- numeric helpers ---------------------------- *)
Scale == 100
Min(a, b) == IF a <= b THEN a ELSE b
Max(a, b) == IF a >= b THEN a ELSE b
\* fixed-point value of a whole number, product and quotient
Fx(n) == n * Scale
FxMul(a, b) == (a * b) \div Scale
FxDiv(a, b) == (a * Scale) \div b

(* ------------------------------ str.lower ----------------------------- *)
LowerChar(c) ==
    CASE c = "P" -> "p"
      [] c = "Y" -> "y"
      [] c = "G" -> "g"
      [] c = "O" -> "o"
      [] OTHER -> c
Lower(s) == [i \in DOMAIN s |-> LowerChar(s[i])]

VARIABLES
    skills,   \* SkillForgeManager.__skills: sequence of skill objects
    file,     \* the storage file
    clock,    \* the clock datetime.now() reads, in seconds
    last,     \* the call being reported: operation, arguments, error / warning
    view,     \* what that call displayed: indices of __skills in print order
    nops      \* successful state-changing calls so far

vars == <<skills, file, clock, last, view, nops>>

(* --------------------------- skill objects ---------------------------- *)
\* SkillBase.__init__ + TechnicalSkill.__init__
TechnicalSkill(name, category, difficulty_level, now) ==
    [ cls |-> "TechnicalSkill", name |-> name, category |-> category,
      progress |-> 0, practice_hours |-> 0,
      created_at |-> now, last_updated |-> now,
      difficulty_level |-> Min(Max(difficulty_level, 1), 10) ]

\* SoftSkill.__init__ without max(real_world_applications, 0)
SoftSkill_unclamped(name, category, real_world_applications, now) ==
    [ cls |-> "SoftSkill", name |-> name, category |-> category,
      progress |-> 0, practice_hours |-> 0,
      created_at |-> now, last_updated |-> now,
      real_world_applications |-> real_world_applications ]

\* SkillBase.__init__ + SoftSkill.__init__
SoftSkill(name, category, real_world_applications, now) ==
    [ cls |-> "SoftSkill", name |-> name, category |-> category,
      progress |-> 0, practice_hours |-> 0,
      created_at |-> now, last_updated |-> now,
      real_world_applications |-> Max(real_world_applications, 0) ]

\* get_skill_type
get_skill_type(s) ==
    IF s.cls = "TechnicalSkill" THEN "Technical Skill" ELSE "Soft Skill"

\* TechnicalSkill.calculate_mastery_score with the practice divisor of SoftSkill
TechnicalMastery_soft_divisor(s) ==
    LET difficulty_bonus == FxMul(FxDiv(Fx(s.difficulty_level), Fx(10)), Fx(100))
        practice_factor  == Min(FxMul(FxDiv(Fx(s.practice_hours), Fx(50)), Fx(100)), Fx(100))
        mastery == FxMul(Fx(s.progress), 50)
                   + FxMul(practice_factor, 30)
                   + FxMul(difficulty_bonus, 20)
    IN  Min(mastery, Fx(100))

\* TechnicalSkill.calculate_mastery_score, in fixed point
TechnicalMastery(s) ==
    LET difficulty_bonus == FxMul(FxDiv(Fx(s.difficulty_level), Fx(10)), Fx(100))
        practice_factor  == Min(FxMul(FxDiv(Fx(s.practice_hours), Fx(100)), Fx(100)), Fx(100))
        mastery == FxMul(Fx(s.progress), 50)
                   + FxMul(practice_factor, 30)
                   + FxMul(difficulty_bonus, 20)
    IN  Min(mastery, Fx(100))

\* SoftSkill.calculate_mastery_score, in fixed point
SoftMastery(s) ==
    LET practice_factor    == Min(FxMul(FxDiv(Fx(s.practice_hours), Fx(50)), Fx(100)), Fx(100))
        application_factor == Min(FxMul(FxDiv(Fx(s.real_world_applications), Fx(20)), Fx(100)), Fx(100))
        mastery == FxMul(Fx(s.progress), 40)
                   + FxMul(practice_factor, 30)
                   + FxMul(application_factor, 30)
    IN  Min(mastery, Fx(100))

\* polymorphic dispatch of calculate_mastery_score
calculate_mastery_score(s) ==
    IF s.cls = "TechnicalSkill" THEN TechnicalMastery(s) ELSE SoftMastery(s)

\* SkillBase.update_progress checking the lower limit only
update_progress_no_upper(s, progress, now) ==
    IF ~(0 <= progress)
    THEN [ skill |-> s, err |-> "ValueError: progress range" ]
    ELSE [ skill |-> [s EXCEPT !.progress = progress, !.last_updated = now],
           err |-> "none" ]

\* SkillBase.update_progress: the object after the call and the error raised
update_progress(s, progress, now) ==
    IF ~(0 <= progress /\ progress <= 100)
    THEN [ skill |-> s, err |-> "ValueError: progress range" ]
    ELSE [ skill |-> [s EXCEPT !.progress = progress, !.last_updated = now],
           err |-> "none" ]

\* SkillBase.log_practice_hours assigning instead of accumulating
log_practice_hours_assign(s, hours, now) ==
    IF hours < 0
    THEN [ skill |-> s, err |-> "ValueError: negative hours" ]
    ELSE [ skill |-> [s EXCEPT !.practice_hours = hours, !.last_updated = now],
           err |-> "none" ]

\* SkillBase.log_practice_hours
log_practice_hours(s, hours, now) ==
    IF hours < 0
    THEN [ skill |-> s, err |-> "ValueError: negative hours" ]
    ELSE [ skill |-> [s EXCEPT !.practice_hours = @ + hours, !.last_updated = now],
           err |-> "none" ]

\* SoftSkill.add_real_world_application
add_real_world_application(s, now) ==
    [s EXCEPT !.real_world_applications = @ + 1, !.last_updated = now]

\* SkillBase.to_dict with the overrides of the two subclasses
to_dict(s) ==
    LET base == [ name |-> s.name, category |-> s.category,
                  progress |-> s.progress, practice_hours |-> s.practice_hours,
                  created_at |-> s.created_at, last_updated |-> s.last_updated,
                  skill_type |-> get_skill_type(s) ]
    IN  IF s.cls = "TechnicalSkill"
        THEN base @@ [ difficulty_level |-> s.difficulty_level ]
        ELSE base @@ [ real_world_applications |-> s.real_world_applications ]

(* ----------------------------- the manager ---------------------------- *)
\* SkillForgeManager.__skill_exists comparing the names as they are
skill_exists_case_sensitive(sk, name) ==
    \E i \in 1..Len(sk) : sk[i].name = name

\* SkillForgeManager.__skill_exists
skill_exists(sk, name) ==
    \E i \in 1..Len(sk) : Lower(sk[i].name) = Lower(name)

\* SkillForgeManager.__find_skill: index of the object returned, 0 for None
RECURSIVE find_from(_, _, _)
find_from(sk, name, i) ==
    IF i > Len(sk) THEN 0
    ELSE IF Lower(sk[i].name) = Lower(name) THEN i
    ELSE find_from(sk, name, i + 1)

\* SkillForgeManager.__find_skill comparing the names as they are
find_skill_case_sensitive(sk, name) ==
    IF \E i \in 1..Len(sk) : sk[i].name = name
    THEN CHOOSE i \in 1..Len(sk) :
           sk[i].name = name /\ \A j \in 1..(i - 1) : sk[j].name # name
    ELSE 0

\* SkillForgeManager.__find_skill, the loop started at the first skill
find_skill(sk, name) == find_from(sk, name, 1)

\* SkillForgeManager.list_skill_names
list_skill_names(sk) == [i \in 1..Len(sk) |-> sk[i].name]

(* --------------------------- the storage file ------------------------- *)
\* os.path.exists is false
NoFile == [ kind |-> "missing", skills |-> <<>>, last_saved |-> 0 ]
\* the file exists and open / json.load raises
BadFile == [ kind |-> "garbage", skills |-> <<>>, last_saved |-> 0 ]

\* dict.get(key, default)
Get(d, key, default) == IF key \in DOMAIN d THEN d[key] ELSE default

\* the loop body of __load_skills bringing the stored progress into [0,100]
load_record_validates_progress(d, now) ==
    LET skill_type == Get(d, "skill_type", "None")
        known == skill_type \in { "Technical Skill", "Soft Skill" }
        keys == { "name", "category", "progress", "practice_hours",
                  "created_at", "last_updated" }
        built == IF skill_type = "Technical Skill"
                 THEN TechnicalSkill(d["name"], d["category"],
                                     Get(d, "difficulty_level", 5), now)
                 ELSE SoftSkill(d["name"], d["category"],
                                Get(d, "real_world_applications", 0), now)
    IN  IF ~known THEN [ status |-> "continue" ]
        ELSE IF ~(keys \subseteq DOMAIN d) THEN [ status |-> "raise" ]
        ELSE [ status |-> "append",
               skill |-> [built EXCEPT !.progress = Min(Max(d["progress"], 0), 100),
                                       !.practice_hours = d["practice_hours"],
                                       !.created_at = d["created_at"],
                                       !.last_updated = d["last_updated"]] ]

\* the loop body of __load_skills without the assignment of _last_updated
load_record_keeps_now(d, now) ==
    LET skill_type == Get(d, "skill_type", "None")
        known == skill_type \in { "Technical Skill", "Soft Skill" }
        keys == { "name", "category", "progress", "practice_hours", "created_at" }
        built == IF skill_type = "Technical Skill"
                 THEN TechnicalSkill(d["name"], d["category"],
                                     Get(d, "difficulty_level", 5), now)
                 ELSE SoftSkill(d["name"], d["category"],
                                Get(d, "real_world_applications", 0), now)
    IN  IF ~known THEN [ status |-> "continue" ]
        ELSE IF ~(keys \subseteq DOMAIN d) THEN [ status |-> "raise" ]
        ELSE [ status |-> "append",
               skill |-> [built EXCEPT !.progress = d["progress"],
                                       !.practice_hours = d["practice_hours"],
                                       !.created_at = d["created_at"]] ]

\* one iteration of the loop of __load_skills: the record is skipped, it
\* raises (KeyError), or it yields a skill object
load_record(d, now) ==
    LET skill_type == Get(d, "skill_type", "None")
        known == skill_type \in { "Technical Skill", "Soft Skill" }
        ctor_keys == { "name", "category" }
        attr_keys == { "progress", "practice_hours", "created_at", "last_updated" }
        built == IF skill_type = "Technical Skill"
                 THEN TechnicalSkill(d["name"], d["category"],
                                     Get(d, "difficulty_level", 5), now)
                 ELSE SoftSkill(d["name"], d["category"],
                                Get(d, "real_world_applications", 0), now)
    IN  IF ~known THEN [ status |-> "continue" ]
        ELSE IF ~(ctor_keys \subseteq DOMAIN d) THEN [ status |-> "raise" ]
        ELSE IF ~(attr_keys \subseteq DOMAIN d) THEN [ status |-> "raise" ]
        ELSE [ status |-> "append",
               skill |-> [built EXCEPT !.progress = d["progress"],
                                       !.practice_hours = d["practice_hours"],
                                       !.created_at = d["created_at"],
                                       !.last_updated = d["last_updated"]] ]

\* the for loop of __load_skills from record i on, acc being self.__skills
RECURSIVE load_loop(_, _, _, _)
load_loop(recs, i, acc, now) ==
    IF i > Len(recs) THEN [ skills |-> acc, err |-> "none" ]
    ELSE LET r == load_record(recs[i], now)
         IN  CASE r.status = "continue" -> load_loop(recs, i + 1, acc, now)
               [] r.status = "raise"    -> [ skills |-> acc, err |-> "warning: load" ]
               [] OTHER -> load_loop(recs, i + 1, Append(acc, r.skill), now)

\* SkillForgeManager.__load_skills on a manager whose __skills is empty
load_skills(f, now) ==
    CASE f.kind = "missing" -> [ skills |-> <<>>, err |-> "none" ]
      [] f.kind = "garbage" -> [ skills |-> <<>>, err |-> "warning: load" ]
      [] OTHER -> load_loop(f.skills, 1, <<>>, now)

\* what save_skills writes
saved_file(sk, now) ==
    [ kind |-> "json",
      skills |-> [i \in 1..Len(sk) |-> to_dict(sk[i])],
      last_saved |-> now ]

(* ------------------------------- sorted ------------------------------- *)
Reverse(s) == [i \in 1..Len(s) |-> s[Len(s) + 1 - i]]

\* x put into the ascending sequence srt behind every element whose key
\* is not greater than its own
RECURSIVE insert_stable(_, _, _)
insert_stable(srt, x, key) ==
    IF srt = <<>> THEN <<x>>
    ELSE IF key[x] < key[Head(srt)] THEN <<x>> \o srt
    ELSE <<Head(srt)>> \o insert_stable(Tail(srt), x, key)

\* a stable ascending sort of the sequence s of indices by key
RECURSIVE stable_sort(_, _)
stable_sort(s, key) ==
    IF s = <<>> THEN <<>>
    ELSE insert_stable(stable_sort(SubSeq(s, 1, Len(s) - 1), key), s[Len(s)], key)

\* sorted(..., reverse=True) as an ascending stable sort read backwards
sorted_by_mastery_unstable(sk) ==
    LET key == [i \in 1..Len(sk) |-> calculate_mastery_score(sk[i])]
        idx == [i \in 1..Len(sk) |-> i]
    IN  Reverse(stable_sort(idx, key))

\* sorted(self.__skills, key=calculate_mastery_score, reverse=True), as
\* indices into __skills: list.sort reverses, sorts stably, reverses back
sorted_by_mastery(sk) ==
    LET key == [i \in 1..Len(sk) |-> calculate_mastery_score(sk[i])]
        idx == [i \in 1..Len(sk) |-> i]
    IN  Reverse(stable_sort(Reverse(idx), key))

(* ------------------------------ the calls ----------------------------- *)
\* The console loop takes one menu choice at a time: it makes the call,
\* reports the outcome (last, view) and comes back to the menu (Idle).
Call(op, name, category, arg, err) ==
    [ op |-> op, name |-> name, category |-> category, arg |-> arg, err |-> err ]
Idle == Call("menu", <<>>, "", 0, "none")

\* datetime.now() at a call that reads it: a second later than the last one
Now == clock + 1

\* SkillForgeManager.add_technical_skill
AddTechnicalSkill(name, category, difficulty) ==
    /\ last = Idle
    /\ IF skill_exists(skills, name)
       THEN /\ last' = Call("add_technical_skill", name, category, difficulty,
                            "ValueError: already exists")
            /\ UNCHANGED <<skills, clock, nops>>
       ELSE /\ nops < MaxOps
            /\ skills' = Append(skills, TechnicalSkill(name, category, difficulty, Now))
            /\ clock' = Now
            /\ last' = Call("add_technical_skill", name, category, difficulty, "none")
            /\ nops' = nops + 1
    /\ UNCHANGED <<file, view>>

\* SkillForgeManager.add_soft_skill
AddSoftSkill(name, category, applications) ==
    /\ last = Idle
    /\ IF skill_exists(skills, name)
       THEN /\ last' = Call("add_soft_skill", name, category, applications,
                            "ValueError: already exists")
            /\ UNCHANGED <<skills, clock, nops>>
       ELSE /\ nops < MaxOps
            /\ skills' = Append(skills, SoftSkill(name, category, applications, Now))
            /\ clock' = Now
            /\ last' = Call("add_soft_skill", name, category, applications, "none")
            /\ nops' = nops + 1
    /\ UNCHANGED <<file, view>>

\* SkillForgeManager.update_skill_progress
UpdateSkillProgress(name, progress) ==
    LET i == find_skill(skills, name) IN
    /\ last = Idle
    /\ IF i = 0
       THEN /\ last' = Call("update_skill_progress", name, "", progress,
                            "ValueError: not found")
            /\ UNCHANGED <<skills, clock, nops>>
       ELSE LET r == update_progress(skills[i], progress, Now) IN
            /\ last' = Call("update_skill_progress", name, "", progress, r.err)
            /\ skills' = [skills EXCEPT ![i] = r.skill]
            /\ IF r.err = "none"
               THEN nops < MaxOps /\ nops' = nops + 1 /\ clock' = Now
               ELSE UNCHANGED <<clock, nops>>
    /\ UNCHANGED <<file, view>>

\* SkillForgeManager.log_practice_hours
LogPracticeHours(name, hours) ==
    LET i == find_skill(skills, name) IN
    /\ last = Idle
    /\ IF i = 0
       THEN /\ last' = Call("log_practice_hours", name, "", hours,
                            "ValueError: not found")
            /\ UNCHANGED <<skills, clock, nops>>
       ELSE LET r == log_practice_hours(skills[i], hours, Now) IN
            /\ last' = Call("log_practice_hours", name, "", hours, r.err)
            /\ skills' = [skills EXCEPT ![i] = r.skill]
            /\ IF r.err = "none"
               THEN nops < MaxOps /\ nops' = nops + 1 /\ clock' = Now
               ELSE UNCHANGED <<clock, nops>>
    /\ UNCHANGED <<file, view>>

\* SkillForgeManager.add_soft_skill_application
AddSoftSkillApplication(name) ==
    LET i == find_skill(skills, name) IN
    /\ last = Idle
    /\ IF i # 0 /\ skills[i].cls = "SoftSkill"
       THEN /\ nops < MaxOps
            /\ skills' = [skills EXCEPT ![i] = add_real_world_application(@, Now)]
            /\ clock' = Now
            /\ last' = Call("add_soft_skill_application", name, "", 0, "none")
            /\ nops' = nops + 1
       ELSE IF i # 0
       THEN /\ last' = Call("add_soft_skill_application", name, "", 0,
                            "TypeError: not a soft skill")
            /\ UNCHANGED <<skills, clock, nops>>
       ELSE /\ last' = Call("add_soft_skill_application", name, "", 0,
                            "ValueError: not found")
            /\ UNCHANGED <<skills, clock, nops>>
    /\ UNCHANGED <<file, view>>

\* SkillForgeManager.display_all_skills
DisplayAllSkills ==
    /\ last = Idle
    /\ view' = IF skills = <<>> THEN <<>> ELSE sorted_by_mastery(skills)
    /\ last' = Call("display_all_skills", <<>>, "", 0, "none")
    /\ UNCHANGED <<skills, file, clock, nops>>

\* SkillForgeManager.save_skills, the file being written
SaveSkills ==
    /\ last = Idle
    /\ nops < MaxOps
    /\ file' = saved_file(skills, Now)
    /\ clock' = Now
    /\ last' = Call("save_skills", <<>>, "", 0, "none")
    /\ nops' = nops + 1
    /\ UNCHANGED <<skills, view>>

\* SkillForgeManager.save_skills, open() raising: the except branch
SaveSkillsFails ==
    /\ last = Idle
    /\ last' = Call("save_skills", <<>>, "", 0, "warning: save")
    /\ UNCHANGED <<skills, file, clock, nops, view>>

\* SkillForgeManager.__init__: a new manager on the same storage file
Construct ==
    LET r == load_skills(file, clock) IN
    /\ last = Idle
    /\ skills' = r.skills
    /\ last' = Call("__init__", <<>>, "", 0, r.err)
    /\ UNCHANGED <<file, clock, nops, view>>

\* the outcome has been reported; back to the menu
Return ==
    /\ last # Idle
    /\ last' = Idle
    /\ view' = <<>>
    /\ UNCHANGED <<skills, file, clock, nops>>

\* one menu choice, the arguments taken from the given sets
Calls(N, D, A, P, H) ==
    \/ \E n \in N, c \in Categories, d \in D : AddTechnicalSkill(n, c, d)
    \/ \E n \in N, c \in Categories, a \in A : AddSoftSkill(n, c, a)
    \/ \E n \in N, p \in P : UpdateSkillProgress(n, p)
    \/ \E n \in N, h \in H : LogPracticeHours(n, h)
    \/ \E n \in N : AddSoftSkillApplication(n)
    \/ DisplayAllSkills
    \/ SaveSkills
    \/ SaveSkillsFails
    \/ Construct
    \/ Return

Next ==
    Calls(ValueNames, DifficultyInputs, ApplicationInputs, ProgressInputs, HoursInputs)

\* the manager constructed on the file f
Constructed(f) ==
    LET r == load_skills(f, 0) IN
    /\ file = f
    /\ clock = 0
    /\ skills = r.skills
    /\ last = Call("__init__", <<>>, "", 0, r.err)
    /\ view = <<>>

\* a manager started without a storage file
Init == Constructed(NoFile) /\ nops = 0

Spec == Init /\ [][Next]_vars

(* ------------------- starting on an existing file --------------------- *)
\* records a storage file may hold: written by save_skills, or edited
RecTechnical ==
    [ name |-> <<"P", "y">>, category |-> "Programming", progress |-> 60,
      practice_hours |-> 40, created_at |-> 0, last_updated |-> 0,
      skill_type |-> "Technical Skill", difficulty_level |-> 8 ]
RecSoft ==
    [ name |-> <<"p", "Y">>, category |-> "Programming", progress |-> 80,
      practice_hours |-> 25, created_at |-> 0, last_updated |-> 0,
      skill_type |-> "Soft Skill", real_world_applications |-> 5 ]
RecNoProgress ==
    [ name |-> <<"g", "o">>, category |-> "Programming",
      practice_hours |-> 40, created_at |-> 0, last_updated |-> 0,
      skill_type |-> "Technical Skill", difficulty_level |-> 8 ]
RecUnknownType ==
    [ name |-> <<"g", "o">>, category |-> "Programming", progress |-> 60,
      practice_hours |-> 40, created_at |-> 0, last_updated |-> 0,
      skill_type |-> "Hard Skill" ]
RecTechnicalOutOfRange ==
    [ name |-> <<"g", "o">>, category |-> "Programming", progress |-> 150,
      practice_hours |-> -5, created_at |-> 0, last_updated |-> 0,
      skill_type |-> "Technical Skill", difficulty_level |-> 15 ]
RecSoftOutOfRange ==
    [ name |-> <<"g", "o">>, category |-> "Programming", progress |-> -20,
      practice_hours |-> 1000, created_at |-> 0, last_updated |-> 0,
      skill_type |-> "Soft Skill", real_world_applications |-> -3 ]
RecNoDifficulty ==
    [ name |-> <<"g", "o">>, category |-> "Programming", progress |-> 12,
      practice_hours |-> 0, created_at |-> 0, last_updated |-> 0,
      skill_type |-> "Technical Skill" ]
RecNoApplications ==
    [ name |-> <<"g", "o">>, category |-> "Programming", progress |-> 80,
      practice_hours |-> 25, created_at |-> 0, last_updated |-> 0,
      skill_type |-> "Soft Skill" ]

SampleRecords ==
    { RecTechnical, RecSoft, RecNoProgress, RecUnknownType,
      RecTechnicalOutOfRange, RecSoftOutOfRange, RecNoDifficulty,
      RecNoApplications }

RECURSIVE SeqsUpTo(_, _)
SeqsUpTo(S, n) ==
    IF n = 0 THEN { <<>> }
    ELSE LET shorter == SeqsUpTo(S, n - 1)
         IN  shorter \cup { Append(q, x) : q \in shorter, x \in S }

\* the storage files a manager is started on
FileContents ==
    { NoFile, BadFile } \cup
    { [ kind |-> "json", skills |-> recs, last_saved |-> 0 ] :
        recs \in SeqsUpTo(SampleRecords, MaxRecords) }

\* a manager started on any of these files; an existing file counts as one
\* call already made, and as one for each of its records
InitLoad ==
    \E f \in FileContents :
        /\ Constructed(f)
        /\ nops = IF f.kind = "missing" THEN 0 ELSE Max(1, Len(f.skills))

NextLoad ==
    Calls(Names, FewDifficultyInputs, FewApplicationInputs, FewProgressInputs,
          FewHoursInputs)

SpecLoad == InitLoad /\ [][NextLoad]_vars

(* ============================== properties ============================ *)
\* two names are equal ignoring letter case
SameIgnoringCase(a, b) == Lower(a) = Lower(b)
\* the positions of the collection sk whose name is n ignoring case
Matches(sk, n) == { i \in 1..Len(sk) : SameIgnoringCase(sk[i].name, n) }
\* the skill a lookup of n resolves to: the first match
FirstMatch(sk, n) == CHOOSE i \in Matches(sk, n) : \A j \in Matches(sk, n) : i <= j
\* the class an add call is asked for
RequestedClass(op) == IF op = "add_technical_skill" THEN "TechnicalSkill" ELSE "SoftSkill"

\* C1: add_technical_skill(N, ...) and add_soft_skill(N, ...) fail with the
\* duplicate-skill error and leave the collection unchanged when a stored
\* name equals N ignoring case; otherwise they append exactly one skill of
\* the requested variant, named N, and change no existing skill.
C1_AddRejectsDuplicates ==
    [][ last'.op \in { "add_technical_skill", "add_soft_skill" } =>
          IF Matches(skills, last'.name) # {}
          THEN /\ last'.err = "ValueError: already exists"
               /\ skills' = skills
          ELSE /\ last'.err = "none"
               /\ Len(skills') = Len(skills) + 1
               /\ SubSeq(skills', 1, Len(skills)) = skills
               /\ skills'[Len(skills')].cls = RequestedClass(last'.op)
               /\ skills'[Len(skills')].name = last'.name
               /\ skills'[Len(skills')].category = last'.category
      ]_vars

\* C1 witness: an add was rejected for a name stored in another letter case
C1_Witness ==
    /\ last.op \in { "add_technical_skill", "add_soft_skill" }
    /\ last.err = "ValueError: already exists"
    /\ \E i \in 1..Len(skills) :
         skills[i].name # last.name /\ SameIgnoringCase(skills[i].name, last.name)
    /\ \A i \in 1..Len(skills) : skills[i].name # last.name

\* C2: update_progress(v) with 0 <= v <= 100 leaves progress equal to v; with
\* v outside the range it raises the validation error and the skill keeps
\* its progress, practice hours and last-updated.  The same through
\* update_skill_progress(name, v) of the manager on an existing skill.
C2_UpdateProgress ==
    [][ /\ \A i \in 1..Len(skills) : \A v \in ProgressInputs :
             LET r == update_progress(skills[i], v, clock + 1) IN
             IF 0 <= v /\ v <= 100
             THEN r.err = "none" /\ r.skill.progress = v
             ELSE r.err = "ValueError: progress range" /\ r.skill = skills[i]
        /\ (last'.op = "update_skill_progress" /\ Matches(skills, last'.name) # {}) =>
             LET i == FirstMatch(skills, last'.name)
                 v == last'.arg
             IN  IF 0 <= v /\ v <= 100
                 THEN /\ last'.err = "none"
                      /\ Len(skills') = Len(skills)
                      /\ skills'[i].progress = v
                      /\ \A j \in 1..Len(skills) : j # i => skills'[j] = skills[j]
                 ELSE /\ last'.err = "ValueError: progress range"
                      /\ skills' = skills
      ]_vars

\* C2 witness: a valid update changed the progress of a skill found under a
\* name in another letter case
C2_Witness ==
    /\ last.op = "update_skill_progress"
    /\ last.err = "none"
    /\ last.arg = 60
    /\ \E i \in 1..Len(skills) :
         /\ skills[i].progress = 60
         /\ skills[i].name # last.name
         /\ skills[i].last_updated > skills[i].created_at

\* C3: for a newly added skill, practice_hours is the sum of the arguments
\* >= 0 of the log_practice_hours calls made on it: it starts at 0, a call
\* with hours >= 0 adds exactly hours, a call with negative hours raises the
\* validation error and changes nothing, and no other call on the manager
\* changes it; so it is >= 0 and never decreases.
C3_PracticeHoursSum ==
    [][ last'.op # "__init__" =>
          /\ Len(skills') >= Len(skills)
          /\ \A i \in 1..Len(skills') :
               /\ skills'[i].practice_hours >= 0
               /\ i > Len(skills) => skills'[i].practice_hours = 0
               /\ i <= Len(skills) =>
                    /\ skills'[i].practice_hours >= skills[i].practice_hours
                    /\ skills'[i].practice_hours =
                         IF /\ last'.op = "log_practice_hours"
                            /\ Matches(skills, last'.name) # {}
                            /\ i = FirstMatch(skills, last'.name)
                            /\ last'.arg >= 0
                         THEN skills[i].practice_hours + last'.arg
                         ELSE skills[i].practice_hours
          /\ (last'.op = "log_practice_hours" /\ Matches(skills, last'.name) # {}) =>
               last'.err = IF last'.arg >= 0 THEN "none"
                           ELSE "ValueError: negative hours"
      ]_vars

\* C3 witness: two logged amounts have accumulated on one skill
C3_Witness ==
    /\ last.op = "log_practice_hours"
    /\ last.err = "none"
    /\ \E i \in 1..Len(skills) : skills[i].practice_hours = 25 + 40

\* C4: in every state reached from an empty collection, the mastery score of
\* every skill of either variant is >= 0 and <= 100; a Technical skill with
\* difficulty 10, practice hours 1000 and progress 100 scores exactly 100.
C4_MasteryInRange ==
    \A i \in 1..Len(skills) :
        /\ calculate_mastery_score(skills[i]) >= Fx(0)
        /\ calculate_mastery_score(skills[i]) <= Fx(100)
        /\ ( /\ skills[i].cls = "TechnicalSkill"
             /\ skills[i].difficulty_level = 10
             /\ skills[i].practice_hours = 1000
             /\ skills[i].progress = 100 )
           => calculate_mastery_score(skills[i]) = Fx(100)

\* C4 witness: the extreme Technical skill exists
C4_Witness ==
    \E i \in 1..Len(skills) :
        /\ skills[i].cls = "TechnicalSkill"
        /\ skills[i].difficulty_level = 10
        /\ skills[i].practice_hours = 1000
        /\ skills[i].progress = 100

\* the formulas of the two variants, in hundredths of a point
TechnicalFormula(progress, practiceHours, difficultyLevel) ==
    Min(progress * 50 + Min(practiceHours, 100) * 30 + (difficultyLevel * 10) * 20,
        100 * 100)
SoftFormula(progress, practiceHours, realWorldApplications) ==
    Min(progress * 40 + Min(practiceHours * 2, 100) * 30
                      + Min(realWorldApplications * 5, 100) * 30,
        100 * 100)

\* C5: after any sequence of operations the mastery score is the variant's
\* formula of the current fields, Technical with a difficulty level within
\* [1,10]; whatever the order of the calls, Technical(difficulty 8) with 40
\* hours and progress 60 scores 58 and Soft(applications 5) with progress 80
\* and 25 hours scores 54.5.
C5_MasteryFormula ==
    \A i \in 1..Len(skills) :
        LET s == skills[i] IN
        IF s.cls = "TechnicalSkill"
        THEN /\ s.difficulty_level >= 1 /\ s.difficulty_level <= 10
             /\ calculate_mastery_score(s) =
                  TechnicalFormula(s.progress, s.practice_hours, s.difficulty_level)
             /\ (s.difficulty_level = 8 /\ s.practice_hours = 40 /\ s.progress = 60)
                  => calculate_mastery_score(s) = 5800
        ELSE /\ calculate_mastery_score(s) =
                  SoftFormula(s.progress, s.practice_hours, s.real_world_applications)
             /\ (s.real_world_applications = 5 /\ s.progress = 80 /\ s.practice_hours = 25)
                  => calculate_mastery_score(s) = 5450

\* C5 witness: the Soft example, reached by the progress update and then the
\* logging of the hours
C5_Witness ==
    /\ last.op = "log_practice_hours"
    /\ \E i \in 1..Len(skills) :
         /\ skills[i].cls = "SoftSkill"
         /\ skills[i].real_world_applications = 5
         /\ skills[i].progress = 80
         /\ skills[i].practice_hours = 25

\* C6: a successful save_skills() does not change the collection in memory,
\* and a manager then constructed on the storage file holds the same number
\* of skills in the same order, each with the same name, category, variant,
\* progress, practice hours, created-at, last-updated and variant field.
C6_SaveLoadRoundTrip ==
    [][ (last'.op = "save_skills" /\ last'.err = "none") =>
          LET loaded == load_skills(file', clock') IN
          /\ skills' = skills
          /\ loaded.err = "none"
          /\ Len(loaded.skills) = Len(skills)
          /\ \A i \in 1..Len(skills) :
               /\ loaded.skills[i].name = skills[i].name
               /\ loaded.skills[i].category = skills[i].category
               /\ loaded.skills[i].cls = skills[i].cls
               /\ loaded.skills[i].progress = skills[i].progress
               /\ loaded.skills[i].practice_hours = skills[i].practice_hours
               /\ loaded.skills[i].created_at = skills[i].created_at
               /\ loaded.skills[i].last_updated = skills[i].last_updated
               /\ loaded.skills[i] = skills[i]
      ]_vars

\* C6 witness: a collection holding an updated skill has been saved
C6_Witness ==
    /\ last.op = "save_skills"
    /\ last.err = "none"
    /\ file.kind = "json"
    /\ \E i \in 1..Len(skills) :
         /\ skills[i].progress > 0
         /\ skills[i].last_updated > skills[i].created_at
         /\ skills[i].last_updated < clock

\* C7: when no stored name equals N ignoring case, update_skill_progress,
\* log_practice_hours and add_soft_skill_application fail with the not-found
\* error; when N resolves to a Technical skill, add_soft_skill_application
\* fails with the type-mismatch error; the collection is unchanged by these
\* failures.  When N resolves to a Soft skill, add_soft_skill_application
\* adds exactly 1 to its application count and changes no other skill.
C7_LookupFailures ==
    [][ /\ ( /\ last'.op \in { "update_skill_progress", "log_practice_hours",
                               "add_soft_skill_application" }
             /\ Matches(skills, last'.name) = {} )
           => (last'.err = "ValueError: not found" /\ skills' = skills)
        /\ ( /\ last'.op = "add_soft_skill_application"
             /\ Matches(skills, last'.name) # {} )
           => LET i == FirstMatch(skills, last'.name) IN
              IF skills[i].cls = "TechnicalSkill"
              THEN last'.err = "TypeError: not a soft skill" /\ skills' = skills
              ELSE /\ last'.err = "none"
                   /\ Len(skills') = Len(skills)
                   /\ skills'[i].real_world_applications
                        = skills[i].real_world_applications + 1
                   /\ [skills'[i] EXCEPT !.real_world_applications = 0,
                                         !.last_updated = 0]
                        = [skills[i] EXCEPT !.real_world_applications = 0,
                                            !.last_updated = 0]
                   /\ \A j \in 1..Len(skills) : j # i => skills'[j] = skills[j]
      ]_vars

\* C7 witness: an application was refused on a Technical skill found under a
\* name in another letter case
C7_Witness ==
    /\ last.op = "add_soft_skill_application"
    /\ last.err = "TypeError: not a soft skill"
    /\ \E i \in 1..Len(skills) :
         /\ skills[i].cls = "TechnicalSkill"
         /\ skills[i].name # last.name
         /\ SameIgnoringCase(skills[i].name, last.name)

\* C8: in every reachable state, the collection having started empty or
\* having been loaded from a storage file with any list of records, no two
\* skills of the collection have names equal ignoring letter case.
C8_UniqueNames ==
    \A i, j \in 1..Len(skills) :
        i # j => ~SameIgnoringCase(skills[i].name, skills[j].name)

\* a record the loader dispatches on and cannot rebuild
Malformed(d) ==
    /\ "skill_type" \in DOMAIN d
    /\ d["skill_type"] \in { "Technical Skill", "Soft Skill" }
    /\ ~({ "name", "category", "progress", "practice_hours",
           "created_at", "last_updated" } \subseteq DOMAIN d)
\* loading the file fails
LoadFails(f) ==
    \/ f.kind = "garbage"
    \/ f.kind = "json" /\ \E i \in 1..Len(f.skills) : Malformed(f.skills[i])

\* C9: when the storage file exists and loading it fails (unreadable,
\* unparsable, or any record malformed), constructing the manager reports a
\* warning and the collection starts empty however many well-formed records
\* precede the failure; when the file does not exist the collection starts
\* empty and no warning is reported.
C9_FailedLoadStartsEmpty ==
    last.op = "__init__" =>
        /\ LoadFails(file) =>
             (last.err = "warning: load" /\ list_skill_names(skills) = <<>>)
        /\ file.kind = "missing" =>
             (last.err = "none" /\ list_skill_names(skills) = <<>>)

\* the sequence v lists every position of sk once, by non-increasing score,
\* equal scores in the order of sk
StableDescending(v, sk) ==
    /\ Len(v) = Len(sk)
    /\ \A i \in 1..Len(sk) : \E p \in 1..Len(v) : v[p] = i
    /\ \A p, q \in 1..Len(v) :
         p < q =>
           /\ calculate_mastery_score(sk[v[p]]) >= calculate_mastery_score(sk[v[q]])
           /\ calculate_mastery_score(sk[v[p]]) = calculate_mastery_score(sk[v[q]])
                => v[p] < v[q]

\* C10: the mastery-sorted view of display_all_skills is a permutation of the
\* stored collection by non-increasing score, skills of equal score in their
\* stored order, and computing it leaves the stored order as it was:
\* list_skill_names() is the same before and after.
C10_SortedViewStable ==
    [][ last'.op = "display_all_skills" =>
          /\ StableDescending(view', skills)
          /\ list_skill_names(skills') = list_skill_names(skills)
          /\ skills' = skills
      ]_vars

\* C10 witness: a view holding two skills of equal score that is not in
\* stored order
C10_Witness ==
    /\ last.op = "display_all_skills"
    /\ Len(view) >= 2
    /\ \E p, q \in 1..Len(view) :
         /\ p # q
         /\ calculate_mastery_score(skills[view[p]])
              = calculate_mastery_score(skills[view[q]])
    /\ \E p \in 1..Len(view) : view[p] # p

\* the record carries a discriminant the loader knows
KnownType(d) ==
    /\ "skill_type" \in DOMAIN d
    /\ d["skill_type"] \in { "Technical Skill", "Soft Skill" }
\* the records of a file the loader turns into skills: those of known type
\* that precede the first malformed record
LoadedRecords(f) ==
    LET bad == { i \in 1..Len(f.skills) : Malformed(f.skills[i]) }
        stop == IF bad = {} THEN Len(f.skills) + 1
                ELSE CHOOSE i \in bad : \A j \in bad : i <= j
    IN  SelectSeq(SubSeq(f.skills, 1, stop - 1), KnownType)
\* the variant field a record stores, 5 or 0 when it stores none
StoredVariantField(d) ==
    IF d["skill_type"] = "Technical Skill"
    THEN IF "difficulty_level" \in DOMAIN d THEN d["difficulty_level"] ELSE 5
    ELSE IF "real_world_applications" \in DOMAIN d
         THEN d["real_world_applications"] ELSE 0
\* the variant field of a skill object
VariantField(s) ==
    IF s.cls = "TechnicalSkill" THEN s.difficulty_level
    ELSE s.real_world_applications
\* the variant field of a written record
WrittenVariantField(d) ==
    IF d["skill_type"] = "Technical Skill" THEN d["difficulty_level"]
    ELSE d["real_world_applications"]

\* C11 as stated: a loaded skill's progress, practice hours, difficulty level
\* and real-world applications equal the stored values verbatim, whatever
\* they are, a missing difficultyLevel / realWorldApplications giving 5 / 0.
C11_LoadedVerbatim ==
    (last.op = "__init__" /\ file.kind = "json") =>
        LET recs == LoadedRecords(file) IN
        /\ Len(skills) = Len(recs)
        /\ \A i \in 1..Len(recs) :
             /\ skills[i].progress = recs[i]["progress"]
             /\ skills[i].practice_hours = recs[i]["practice_hours"]
             /\ VariantField(skills[i]) = StoredVariantField(recs[i])

\* C11, amended: a loaded skill's progress and practice hours equal the
\* stored values verbatim, whatever they are; its difficulty level is the
\* stored one (5 when missing) brought into [1,10] and its real-world
\* applications the stored count (0 when missing) raised to at least 0, by
\* the constructors; a later save writes the values the skill holds.
C11_LoadedThroughConstructors ==
    /\ (last.op = "__init__" /\ file.kind = "json") =>
         LET recs == LoadedRecords(file) IN
         /\ Len(skills) = Len(recs)
         /\ \A i \in 1..Len(recs) :
              /\ skills[i].progress = recs[i]["progress"]
              /\ skills[i].practice_hours = recs[i]["practice_hours"]
              /\ VariantField(skills[i]) =
                   IF recs[i]["skill_type"] = "Technical Skill"
                   THEN Min(Max(StoredVariantField(recs[i]), 1), 10)
                   ELSE Max(StoredVariantField(recs[i]), 0)
    /\ (last.op = "save_skills" /\ last.err = "none") =>
         /\ Len(file.skills) = Len(skills)
         /\ \A i \in 1..Len(skills) :
              /\ file.skills[i]["progress"] = skills[i].progress
              /\ file.skills[i]["practice_hours"] = skills[i].practice_hours
              /\ WrittenVariantField(file.skills[i]) = VariantField(skills[i])

\* C11 witness: a skill loaded with progress 150, negative hours and a
\* stored difficulty above 10 has been saved again
C11_Witness ==
    /\ last.op = "save_skills"
    /\ last.err = "none"
    /\ \E i \in 1..Len(skills) :
         /\ skills[i].cls = "TechnicalSkill"
         /\ skills[i].progress = 150
         /\ skills[i].practice_hours < 0
         /\ skills[i].difficulty_level = 10
         /\ file.skills[i]["progress"] = 150
         /\ file.skills[i]["difficulty_level"] = 10

====
